---------------------------- MODULE Spec2Model ----------------------------
(***************************************************************************)
(* A model of consolidate/consolidate_files.py: the compilation of the     *)
(* ignore patterns, the text/binary classification, the selection of the   *)
(* files of a directory tree and their concatenation into one output file. *)
(*                                                                         *)
(* Text is a sequence of one-byte tokens: a printable byte is the string   *)
(* of that character, and "LF", "CR", "NUL", "x1A", "x89", "xFF" are the   *)
(* bytes 0x0A, 0x0D, 0x00, 0x1A, 0x89 and 0xFF.  A file name is such a     *)
(* sequence, a path is a sequence of names (root first), and the text of a *)
(* path joins its names with "/".                                          *)
(***************************************************************************)
EXTENDS Integers, Sequences, FiniteSets, TLC

VARIABLES pc, fs, args, spec, files_to_process, pos, outfile, run,
          previous_output, result

vars == <<pc, fs, args, spec, files_to_process, pos, outfile, run,
          previous_output, result>>

-----------------------------------------------------------------------------
(* Bounds of the model.                                                    *)

\* files of the scanned tree at the start of a run
MaxFiles == 3
\* lines of the .gitignore whose patterns are enumerated
MaxLines == 2
\* f.read(1024) in is_binary_file
ChunkSize == 1024

-----------------------------------------------------------------------------
(* The texts the model uses.                                               *)

s_a_txt == <<"a", ".", "t", "x", "t">>

s_b_png == <<"b", ".", "p", "n", "g">>

s_gitignore == <<".", "g", "i", "t", "i", "g", "n", "o", "r", "e">>

s_dot_h == <<".", "h">>

s_c_py == <<"c", ".", "p", "y">>

s_d_txt == <<"d", ".", "t", "x", "t">>

s_e_txt == <<"e", ".", "t", "x", "t">>

s_pipe == <<"p", "i", "p", "e">>

s_sub == <<"s", "u", "b">>

s_summarised_txt == <<"s", "u", "m", "m", "a", "r", "i", "s", "e", "d", ".", "t", "x", "t">>

s_consolidate_files_py == <<"c", "o", "n", "s", "o", "l", "i", "d", "a", "t", "e", "_", "f", "i", "l", "e", "s", ".", "p", "y">>

s_consolidate_files_log == <<"c", "o", "n", "s", "o", "l", "i", "d", "a", "t", "e", "_", "f", "i", "l", "e", "s", ".", "l", "o", "g">>

s_hash_out_txt == <<"#", "o", "u", "t", ".", "t", "x", "t">>

s_X_PY == <<"X", ".", "P", "Y">>

s_x_py == <<"x", ".", "p", "y">>

s_x_txt == <<"x", ".", "t", "x", "t">>

s_build == <<"b", "u", "i", "l", "d">>

s_keep_txt == <<"k", "e", "e", "p", ".", "t", "x", "t">>

s_debug_log == <<"d", "e", "b", "u", "g", ".", "l", "o", "g">>

s_important_log == <<"i", "m", "p", "o", "r", "t", "a", "n", "t", ".", "l", "o", "g">>

s_data == <<"d", "a", "t", "a">>

s_notes_TXT == <<"n", "o", "t", "e", "s", ".", "T", "X", "T">>

s_hello == <<"h", "e", "l", "l", "o">>

s_png_header == <<"x89", "P", "N", "G", "CR", "LF", "x1A", "LF", "NUL", "NUL", "NUL", "CR", "I", "H", "D", "R", "NUL">>

s_ext_py == <<".", "p", "y">>

s_ext_PY == <<".", "P", "Y">>

s_ext_txt == <<".", "t", "x", "t">>

s_ext_png == <<".", "p", "n", "g">>

s_text_plain == <<"t", "e", "x", "t", "/", "p", "l", "a", "i", "n">>

s_text_x_python == <<"t", "e", "x", "t", "/", "x", "-", "p", "y", "t", "h", "o", "n">>

s_image_png == <<"i", "m", "a", "g", "e", "/", "p", "n", "g">>

s_text_slash == <<"t", "e", "x", "t", "/">>

s_StartMark == <<"LF", "LF", "#", " ", "-", "-", "-", "-", "-", " ", "S", "t", "a", "r", "t", " ", "o", "f", " ">>

s_StartTail == <<" ", "-", "-", "-", "-", "-", "LF", "LF">>

s_EndMark == <<"LF", "LF", "#", " ", "-", "-", "-", "-", "-", " ", "E", "n", "d", " ", "o", "f", " ">>

s_EndTail == <<" ", "-", "-", "-", "-", "-", "LF">>

p_star_log == <<"*", ".", "l", "o", "g">>

p_not_important_log == <<"!", "i", "m", "p", "o", "r", "t", "a", "n", "t", ".", "l", "o", "g">>

p_build_dir == <<"b", "u", "i", "l", "d", "/">>

p_not_build_keep == <<"!", "b", "u", "i", "l", "d", "/", "k", "e", "e", "p", ".", "t", "x", "t">>

p_root_a_txt == <<"/", "a", ".", "t", "x", "t">>

p_comment == <<"#", "c">>

p_not_summarised == <<"!", "s", "u", "m", "m", "a", "r", "i", "s", "e", "d", ".", "t", "x", "t">>

p_star_txt == <<"*", ".", "t", "x", "t">>

\* An optional value: None, or Some(v) holding v.
None == <<>>

Some(v) == <<v>>

Value(opt) == opt[1]

\* GitWildMatchPattern.include of a blank line or a comment
NoInclude == "None"

-----------------------------------------------------------------------------
(* Operations of Python's str and list that the program uses.              *)

startswith(s, p) == Len(p) <= Len(s) /\ SubSeq(s, 1, Len(p)) = p

endswith(s, p) == Len(p) <= Len(s) /\ SubSeq(s, Len(s) - Len(p) + 1, Len(s)) = p

\* p in s, for a non-empty p
contains(s, p) == \E i \in 0..(Len(s) - Len(p)) : SubSeq(s, i + 1, i + Len(p)) = p

UpperToLower ==
  [c \in {"P", "Y", "T", "X", "N", "G"} |->
     CASE c = "P" -> "p" [] c = "Y" -> "y" [] c = "T" -> "t"
       [] c = "X" -> "x" [] c = "N" -> "n" [] c = "G" -> "g"]

lower(s) == [i \in 1..Len(s) |-> IF s[i] \in DOMAIN UpperToLower THEN UpperToLower[s[i]] ELSE s[i]]

\* the position of the first sep in s, or 0
RECURSIVE find(_, _, _)
find(s, sep, i) ==
  IF i > Len(s) THEN 0 ELSE IF s[i] = sep THEN i ELSE find(s, sep, i + 1)

\* s.split(sep): always at least one piece
RECURSIVE split(_, _)
split(s, sep) ==
  LET i == find(s, sep, 1)
  IN  IF i = 0 THEN <<s>>
      ELSE <<SubSeq(s, 1, i - 1)>> \o split(SubSeq(s, i + 1, Len(s)), sep)

\* s.splitlines() for text whose only line break is "LF": no piece for the
\* text after a final line break
splitlines(s) ==
  LET pieces == split(s, "LF")
  IN  IF pieces[Len(pieces)] = <<>> THEN SubSeq(pieces, 1, Len(pieces) - 1) ELSE pieces

\* sep.join(parts)
RECURSIVE join(_, _)
join(parts, sep) ==
  IF parts = <<>> THEN <<>>
  ELSE IF Len(parts) = 1 THEN parts[1]
  ELSE parts[1] \o <<sep>> \o join(Tail(parts), sep)

\* the concatenation of a sequence of sequences
RECURSIVE concat(_)
concat(seqs) == IF seqs = <<>> THEN <<>> ELSE Head(seqs) \o concat(Tail(seqs))

\* the sequences over S of length at most n
SeqsUpTo(S, n) == UNION {[1..k -> S] : k \in 0..n}

-----------------------------------------------------------------------------
(* pathspec's 'gitwildmatch' patterns, as PathSpec.from_lines compiles     *)
(* them and PathSpec.match_file applies them.  A compiled pattern is       *)
(* [include, segs]: include is "yes", "no" (a negated pattern) or "None"   *)
(* (a blank line or a comment, which matches nothing); segs are the        *)
(* segments of the pattern's regular expression.  The language modelled is *)
(* literal characters, "*", "?", "**", "!", "#" and "/"; bracket           *)
(* expressions, backslash escapes and surrounding blanks are left out.     *)

StarStar == <<"*", "*">>

Star == <<"*">>

\* adjacent "**" segments collapse into one
RECURSIVE NormalizeSegs(_)
NormalizeSegs(segs) ==
  IF Len(segs) < 2 THEN segs
  ELSE IF segs[1] = StarStar /\ segs[2] = StarStar THEN NormalizeSegs(Tail(segs))
  ELSE <<segs[1]>> \o NormalizeSegs(Tail(segs))

\* GitWildMatchPattern.pattern_to_regex
pattern_to_regex(line) ==
  IF line = <<>> \/ Head(line) = "#" \/ line = <<"/">>
  THEN [include |-> NoInclude, segs |-> <<>>]
  ELSE
    LET negated == Head(line) = "!"
        body    == IF negated THEN Tail(line) ELSE line
        s0      == NormalizeSegs(split(body, "/"))
        \* a leading "/" anchors the pattern at the root; a pattern with no
        \* "/" but a trailing one matches at any depth; any other is anchored
        s1      == IF s0[1] = <<>> THEN Tail(s0)
                   ELSE IF Len(s0) = 1 \/ (Len(s0) = 2 /\ s0[2] = <<>>)
                        THEN (IF s0[1] = StarStar THEN s0 ELSE <<StarStar>> \o s0)
                        ELSE s0
        \* a trailing "/" matches everything below the directory
        s2      == IF Len(s1) > 1 /\ s1[Len(s1)] = <<>>
                   THEN SubSeq(s1, 1, Len(s1) - 1) \o <<StarStar>>
                   ELSE s1
    IN  [include |-> IF negated THEN "no" ELSE "yes", segs |-> s2]

\* the regular expression of one segment against one name: "*" is [^/]*,
\* "?" is [^/], any other character is itself
RECURSIVE GlobMatch(_, _)
GlobMatch(glob, name) ==
  IF glob = <<>> THEN name = <<>>
  ELSE IF Head(glob) = "*"
       THEN \E k \in 0..Len(name) : GlobMatch(Tail(glob), SubSeq(name, k + 1, Len(name)))
  ELSE IF Head(glob) = "?"
       THEN name # <<>> /\ GlobMatch(Tail(glob), Tail(name))
  ELSE name # <<>> /\ Head(name) = Head(glob) /\ GlobMatch(Tail(glob), Tail(name))

\* the regular expression of segs[i..] against parts[j..], the names of the
\* path: a leading "**" is (?:.+/)?, a middle one (?:/.+)?, a final one /.*,
\* a "*" segment [^/]+, and the last segment is followed by (?:/.*)?
RECURSIVE RegexMatch(_, _, _, _)
RegexMatch(segs, i, parts, j) ==
  LET seg == segs[i]
      end == Len(segs)
  IN  IF seg = StarStar
      THEN IF i = 1 /\ i = end THEN join(parts, "/") # <<>>
           ELSE IF i = end THEN j <= Len(parts)
           ELSE \E k \in j..(Len(parts) + 1) : RegexMatch(segs, i + 1, parts, k)
      ELSE /\ j <= Len(parts)
           /\ IF seg = Star THEN parts[j] # <<>> ELSE GlobMatch(seg, parts[j])
           /\ (i = end \/ RegexMatch(segs, i + 1, parts, j + 1))

\* RegexPattern.match_file: whether the pattern's expression matches the text
PatternMatches(pattern, text) ==
  /\ pattern.include # NoInclude
  /\ RegexMatch(pattern.segs, 1, split(text, "/"), 1)

\* PathSpec.from_lines('gitwildmatch', lines)
from_lines(lines) == [i \in 1..Len(lines) |-> pattern_to_regex(lines[i])]

\* util.normalize_file: a leading "./" is dropped
normalize_file(text) ==
  IF startswith(text, <<".", "/">>) THEN SubSeq(text, 3, Len(text)) ELSE text

\* PathSpec.match_file: every pattern is tried in order and the last one
\* that matches decides
RECURSIVE MatchFold(_, _, _, _)
MatchFold(patterns, i, text, matched) ==
  IF i > Len(patterns) THEN matched
  ELSE MatchFold(patterns, i + 1, text,
                 IF PatternMatches(patterns[i], text)
                 THEN patterns[i].include = "yes" ELSE matched)

\* match_file were the first matching pattern to decide
RECURSIVE FirstMatchFold(_, _, _)
FirstMatchFold(patterns, i, text) ==
  IF i > Len(patterns) THEN FALSE
  ELSE IF PatternMatches(patterns[i], text) THEN patterns[i].include = "yes"
  ELSE FirstMatchFold(patterns, i + 1, text)

match_file_first_match(patterns, text) == FirstMatchFold(patterns, 1, normalize_file(text))

match_file(patterns, text) == MatchFold(patterns, 1, normalize_file(text), FALSE)

-----------------------------------------------------------------------------
(* The file system.  A file is [path, content, openable, regular]: content *)
(* is its bytes, openable is whether open() succeeds on it, regular is     *)
(* whether os.path.isfile holds of it.  A tree is a set of files with      *)
(* distinct paths; its directories are the proper prefixes of the paths.   *)

basename(path) == path[Len(path)]

\* os.path.relpath(file_path, input_dir), as text
relpath(path) == join(path, "/")

Paths(fsys) == {f.path : f \in fsys}

FileAt(fsys, path) == CHOOSE f \in fsys : f.path = path

IsPrefix(dir, path) == Len(dir) < Len(path) /\ SubSeq(path, 1, Len(dir)) = dir

\* the names of the non-directory entries of directory dir
FileNames(fsys, dir) == {basename(p) : p \in {q \in Paths(fsys) : Len(q) = Len(dir) + 1 /\ IsPrefix(dir, q)}}

\* the names of the subdirectories of directory dir
DirNames(fsys, dir) == {p[Len(dir) + 1] : p \in {q \in Paths(fsys) : Len(q) > Len(dir) + 1 /\ IsPrefix(dir, q)}}

\* The order in which a directory lists its entries: arbitrary, the same
\* whenever the same entry is listed.
DirOrder ==
  <<s_a_txt, s_hash_out_txt, s_summarised_txt, s_gitignore, s_b_png,
    s_consolidate_files_log, s_consolidate_files_py, s_d_txt, s_e_txt, s_pipe,
    s_c_py, s_dot_h, s_sub, s_build, s_keep_txt, s_debug_log, s_important_log>>

\* os.listdir / os.scandir restricted to the names in S
Listing(S) ==
  LET In(n) == n \in S
  IN  SelectSeq(DirOrder, In)

\* bytes.decode('utf-8'): None for an invalid byte sequence
InvalidBytes == {"x89", "xFF"}

\* the universal-newline translation of a text-mode read
RECURSIVE TranslateNewlines(_)
TranslateNewlines(s) ==
  IF s = <<>> THEN <<>>
  ELSE IF Head(s) = "CR"
       THEN IF Len(s) > 1 /\ s[2] = "LF"
            THEN <<"LF">> \o TranslateNewlines(SubSeq(s, 3, Len(s)))
            ELSE <<"LF">> \o TranslateNewlines(Tail(s))
  ELSE <<Head(s)>> \o TranslateNewlines(Tail(s))

Decodable(bytes) == \A i \in 1..Len(bytes) : bytes[i] \notin InvalidBytes

\* open(path, 'r', encoding='utf-8').read(): None when it raises
ReadText(file) ==
  IF file.openable /\ Decodable(file.content)
  THEN Some(TranslateNewlines(file.content)) ELSE None

-----------------------------------------------------------------------------
(* mimetypes.guess_type                                                    *)

\* the position of the last "." of name, or 0
RECURSIVE rfind_dot(_, _)
rfind_dot(name, i) ==
  IF i = 0 THEN 0 ELSE IF name[i] = "." THEN i ELSE rfind_dot(name, i - 1)

\* posixpath.splitext(name)[1]: the suffix from the last ".", unless only
\* dots precede it
splitext(name) ==
  LET i == rfind_dot(name, Len(name))
  IN  IF i > 1 /\ (\E k \in 1..(i - 1) : name[k] # ".")
      THEN SubSeq(name, i, Len(name)) ELSE <<>>

\* mimetypes.types_map, the entries for the extensions of the model
types_map(ext) ==
  CASE ext = s_ext_txt -> Some(s_text_plain)
    [] ext = s_ext_py  -> Some(s_text_x_python)
    [] ext = s_ext_png -> Some(s_image_png)
    [] OTHER -> None

guess_type(name) ==
  LET ext == splitext(name)
  IN  IF types_map(ext) # None THEN types_map(ext) ELSE types_map(lower(ext))

-----------------------------------------------------------------------------
(* consolidate_files.py                                                    *)

\* Path(input_dir).rglob('.gitignore'): every directory is searched, the
\* hidden ones too
RECURSIVE rglob(_, _, _)
rglob(fsys, dir, name) ==
  LET SubTree(d) == rglob(fsys, dir \o <<d>>, name)
      dirs == Listing(DirNames(fsys, dir))
  IN  (IF name \in FileNames(fsys, dir) THEN <<dir \o <<name>>>> ELSE <<>>)
      \o concat([i \in 1..Len(dirs) |-> SubTree(dirs[i])])

\* the lines one .gitignore adds to all_patterns: none when the read raises
GitignoreLines(file) ==
  IF ReadText(file) = None THEN <<>> ELSE splitlines(Value(ReadText(file)))

load_gitignore_patterns(fsys, extra_patterns) ==
  LET gitignore_files == rglob(fsys, <<>>, s_gitignore)
      from_files == concat([i \in 1..Len(gitignore_files) |->
                              GitignoreLines(FileAt(fsys, gitignore_files[i]))])
      all_patterns == IF extra_patterns # None /\ Value(extra_patterns) # <<>>
                      THEN from_files \o Value(extra_patterns)
                      ELSE from_files
  IN  IF all_patterns = <<>> THEN None ELSE Some(from_lines(all_patterns))

\* is_binary_file were the whole file searched for a null byte
is_binary_file_whole_file(file) ==
  LET mime_type == guess_type(basename(file.path))
  IN  IF mime_type = None
      THEN IF ~file.openable THEN TRUE
           ELSE \E i \in 1..Len(file.content) : file.content[i] = "NUL"
      ELSE ~startswith(Value(mime_type), s_text_slash)

is_binary_file(file) ==
  LET mime_type == guess_type(basename(file.path))
      chunk == SubSeq(file.content, 1,
                      IF Len(file.content) < ChunkSize THEN Len(file.content) ELSE ChunkSize)
  IN  IF mime_type = None
      THEN IF ~file.openable THEN TRUE
           ELSE \E i \in 1..Len(chunk) : chunk[i] = "NUL"
      ELSE ~startswith(Value(mime_type), s_text_slash)

should_ignore(path, pathspec) ==
  IF pathspec = None THEN FALSE
  ELSE match_file(Value(pathspec), relpath(path))

\* lines 183 and 198: a file passes unless a filter is given and the
\* lowercased name ends with none of its suffixes
extension_test(filename, extensions) ==
  ~(/\ extensions # None
    /\ Value(extensions) # <<>>
    /\ ~(\E i \in 1..Len(Value(extensions)) : endswith(lower(filename), Value(extensions)[i])))

-----------------------------------------------------------------------------
(* Values of the variables a specification does not use.                   *)

Idle ==
  /\ files_to_process = <<>>
  /\ pos = 0
  /\ outfile = None
  /\ run = 0
  /\ previous_output = None

File(path, content, openable, regular) ==
  [path |-> path, content |-> content, openable |-> openable, regular |-> regular]

-----------------------------------------------------------------------------
(* SpecIgnore: load_gitignore_patterns and should_ignore on enumerated     *)
(* .gitignore files, extra patterns and paths.                             *)

PatternLines ==
  {p_star_log, p_not_important_log, p_build_dir, p_not_build_keep, s_b_png,
   p_root_a_txt, p_comment, <<>>}

\* the text of a file whose lines are the given ones
LinesText(lines) == concat([i \in 1..Len(lines) |-> lines[i] \o <<"LF">>])

RootGitignores ==
  {File(<<s_gitignore>>, LinesText(lines), TRUE, TRUE) : lines \in SeqsUpTo(PatternLines, MaxLines)}

\* a second .gitignore, lower in the tree: readable, or not
SubGitignores ==
  {File(<<s_sub, s_gitignore>>, LinesText(<<p_star_txt>>), TRUE, TRUE),
   File(<<s_sub, s_gitignore>>, LinesText(<<p_star_txt>>), FALSE, TRUE)}

IgnorePaths ==
  {<<s_important_log>>, <<s_debug_log>>, <<s_build, s_keep_txt>>, <<s_a_txt>>,
   <<s_sub, s_a_txt>>, <<s_b_png>>, <<s_sub, s_summarised_txt>>}

ExtraPatterns == {None, Some(<<s_summarised_txt>>)}

InitIgnore ==
  /\ pc = "ignore_input"
  /\ \E roots \in {{}} \cup {{f} : f \in RootGitignores} :
       \E subs \in {{}} \cup {{f} : f \in SubGitignores} : fs = roots \cup subs
  /\ \E extra \in ExtraPatterns : \E path \in IgnorePaths :
       args = [extra_patterns |-> extra, file_path |-> path]
  /\ spec = None
  /\ result = None
  /\ Idle

LoadPatterns ==
  /\ pc = "ignore_input"
  /\ spec' = load_gitignore_patterns(fs, args.extra_patterns)
  /\ pc' = "ignore_loaded"
  /\ UNCHANGED <<fs, args, files_to_process, pos, outfile, run, previous_output, result>>

ShouldIgnore ==
  /\ pc = "ignore_loaded"
  /\ result' = Some(should_ignore(args.file_path, spec))
  /\ pc' = "ignore_applied"
  /\ UNCHANGED <<fs, args, spec, files_to_process, pos, outfile, run, previous_output>>

NextIgnore == LoadPatterns \/ ShouldIgnore

SpecIgnore == InitIgnore /\ [][NextIgnore]_vars

-----------------------------------------------------------------------------
(* SpecExt: the extension test on enumerated names and filters.            *)

ExtNames ==
  {s_x_py, s_X_PY, s_x_txt, s_a_txt, s_notes_TXT, s_gitignore, s_data, s_c_py}

ExtFilters ==
  {None, Some(<<>>), Some(<<s_ext_py>>), Some(<<s_ext_PY>>), Some(<<s_ext_txt>>),
   Some(<<s_ext_py, s_ext_txt>>), Some(<<s_ext_PY, s_ext_txt>>)}

InitExt ==
  /\ pc = "ext_input"
  /\ \E name \in ExtNames : \E exts \in ExtFilters :
       args = [filename |-> name, extensions |-> exts]
  /\ fs = {}
  /\ spec = None
  /\ result = None
  /\ Idle

ExtensionTest ==
  /\ pc = "ext_input"
  /\ result' = Some(extension_test(args.filename, args.extensions))
  /\ pc' = "ext_applied"
  /\ UNCHANGED <<fs, args, spec, files_to_process, pos, outfile, run, previous_output>>

NextExt == ExtensionTest

SpecExt == InitExt /\ [][NextExt]_vars

-----------------------------------------------------------------------------
(* SpecBinary: is_binary_file on enumerated files.                         *)

\* n bytes "a" with a null byte at position at (none when at = 0)
Bytes(n, at) == [i \in 1..n |-> IF i = at THEN "NUL" ELSE "a"]

BinaryNames ==
  {s_a_txt, s_b_png, s_data, s_X_PY, s_gitignore, s_notes_TXT, s_debug_log}

BinaryContents ==
  {s_hello, s_png_header, <<>>, Bytes(ChunkSize, ChunkSize),
   Bytes(ChunkSize + 1, ChunkSize + 1), Bytes(ChunkSize + 1, 0)}

InitBinary ==
  /\ pc = "binary_input"
  /\ \E name \in BinaryNames : \E content \in BinaryContents : \E openable \in BOOLEAN :
       args = [file |-> File(<<name>>, content, openable, TRUE)]
  /\ fs = {}
  /\ spec = None
  /\ result = None
  /\ Idle

IsBinaryFile ==
  /\ pc = "binary_input"
  /\ result' = Some(is_binary_file(args.file))
  /\ pc' = "binary_applied"
  /\ UNCHANGED <<fs, args, spec, files_to_process, pos, outfile, run, previous_output>>

NextBinary == IsBinaryFile

SpecBinary == InitBinary /\ [][NextBinary]_vars

-----------------------------------------------------------------------------
(* Properties of load_gitignore_patterns and should_ignore (SpecIgnore).   *)

\* the lines of every readable .gitignore in discovery order, then the
\* extra names
CombinedLines ==
  LET found == rglob(fs, <<>>, s_gitignore)
      Lines(f) == IF f.openable /\ Decodable(f.content) THEN splitlines(f.content) ELSE <<>>
  IN  concat([i \in 1..Len(found) |-> Lines(FileAt(fs, found[i]))])
      \o (IF args.extra_patterns = None THEN <<>> ELSE Value(args.extra_patterns))

LineMatches(line, text) == PatternMatches(pattern_to_regex(line), text)

IsNegated(line) == line # <<>> /\ Head(line) = "!"

Largest(S) == CHOOSE i \in S : \A k \in S : k <= i

OnlyRootGitignore(lines) == fs = {File(<<s_gitignore>>, LinesText(lines), TRUE, TRUE)}

\* C4: should_ignore is decided by the last pattern of the combined list
\* that matches the path: no matching pattern (or no pattern at all, the
\* rule set then being None) means not ignored, a last match that is not
\* negated means ignored, a negated last match means not ignored; with
\* "*.log" then "!important.log", important.log is kept and debug.log ignored.
C4_LastMatchWins ==
  pc = "ignore_applied" =>
    LET lines == CombinedLines
        text  == relpath(args.file_path)
        M     == {i \in 1..Len(lines) : LineMatches(lines[i], text)}
    IN  /\ lines = <<>> => spec = None /\ result = Some(FALSE)
        /\ M = {} => result = Some(FALSE)
        /\ M # {} => result = Some(~IsNegated(lines[Largest(M)]))
        /\ (OnlyRootGitignore(<<p_star_log, p_not_important_log>>) /\ args.extra_patterns = None) =>
             /\ args.file_path = <<s_important_log>> => result = Some(FALSE)
             /\ args.file_path = <<s_debug_log>> => result = Some(TRUE)

C4_Witness ==
  /\ pc = "ignore_applied"
  /\ OnlyRootGitignore(<<p_star_log, p_not_important_log>>)
  /\ args.extra_patterns = None
  /\ args.file_path = <<s_important_log>>
  /\ result = Some(FALSE)

\* the directory paths above a path
Ancestors(path) == {SubSeq(path, 1, k) : k \in 1..(Len(path) - 1)}

\* a pattern that is not negated and matches the directory itself
ExcludesDirectory(line, dir) ==
  ~IsNegated(line) /\ LineMatches(line, relpath(dir) \o <<"/">>)

\* C3: when a pattern excludes a directory above the path and a later
\* pattern is the negation of the path, the path is still ignored.
C3_NegationCannotReinclude ==
  pc = "ignore_applied" =>
    LET lines == CombinedLines
        text  == relpath(args.file_path)
    IN  (\E i \in 1..Len(lines) : \E j \in (i + 1)..Len(lines) :
           /\ \E dir \in Ancestors(args.file_path) : ExcludesDirectory(lines[i], dir)
           /\ lines[j] = <<"!">> \o text)
        => result = Some(TRUE)

-----------------------------------------------------------------------------
(* Properties of the extension test (SpecExt).                             *)

\* C7: with a non-empty filter a name passes exactly when it ends, letter
\* case disregarded, with a suffix of the filter; with an empty or absent
\* filter every name passes.
C7_CaseInsensitiveExtensions ==
  pc = "ext_applied" =>
    LET E == IF args.extensions = None THEN <<>> ELSE Value(args.extensions)
    IN  result = Some(\/ E = <<>>
                      \/ \E i \in 1..Len(E) : endswith(lower(args.filename), lower(E[i])))

-----------------------------------------------------------------------------
(* Properties of is_binary_file (SpecBinary).                              *)

\* C8: a known textual media type gives false and a known non-textual one
\* true, whatever the bytes; an unknown type gives true exactly when a null
\* byte is among the first 1024 bytes of a file that opens, and true for a
\* file that does not open.
C8_BinaryDecisionTable ==
  pc = "binary_applied" =>
    LET f       == args.file
        mime    == guess_type(basename(f.path))
        textual == mime \in {Some(s_text_plain), Some(s_text_x_python)}
        nullInChunk == \E i \in 1..Len(f.content) : i <= ChunkSize /\ f.content[i] = "NUL"
    IN  result = Some(CASE mime # None /\ textual -> FALSE
                        [] mime # None /\ ~textual -> TRUE
                        [] mime = None /\ f.openable -> nullInChunk
                        [] mime = None /\ ~f.openable -> TRUE)

\* an unknown type whose only null byte lies past the first 1024 bytes
C8_Witness ==
  /\ pc = "binary_applied"
  /\ guess_type(basename(args.file.path)) = None
  /\ args.file.openable
  /\ args.file.content = Bytes(ChunkSize + 1, ChunkSize + 1)
  /\ result = Some(FALSE)

-----------------------------------------------------------------------------
(* consolidate_files: the selection of the files and their concatenation.  *)

IsHidden(name) == startswith(name, <<".">>)

\* walk without line 175: hidden directories are entered too
RECURSIVE walk_unpruned(_, _)
walk_unpruned(fsys, dir) ==
  LET files == Listing(FileNames(fsys, dir))
      dirs  == Listing(DirNames(fsys, dir))
  IN  [i \in 1..Len(files) |-> dir \o <<files[i]>>]
      \o concat([i \in 1..Len(dirs) |-> walk_unpruned(fsys, dir \o <<dirs[i]>>)])

\* os.walk(input_dir) with line 175's pruning: the non-directory entries of
\* a directory, then its subdirectories, the hidden ones left out
RECURSIVE walk(_, _)
walk(fsys, dir) ==
  LET files == Listing(FileNames(fsys, dir))
      Visible(d) == ~IsHidden(d)
      dirs  == SelectSeq(Listing(DirNames(fsys, dir)), Visible)
  IN  [i \in 1..Len(files) |-> dir \o <<files[i]>>]
      \o concat([i \in 1..Len(dirs) |-> walk(fsys, dir \o <<dirs[i]>>)])

\* os.path.isfile(os.path.join(input_dir, name))
isfile(fsys, path) == path \in Paths(fsys) /\ FileAt(fsys, path).regular

\* lines 178-189: the tests of one file of the walk
KeptByWalk(fsys, path, pathspec, extensions) ==
  /\ ~should_ignore(path, pathspec)
  /\ isfile(fsys, path)
  /\ extension_test(basename(path), extensions)
  /\ ~is_binary_file(FileAt(fsys, path))

\* lines 193-204: the tests of one entry of os.listdir(input_dir)
KeptByListdir(fsys, path, pathspec, extensions) ==
  /\ isfile(fsys, path)
  /\ ~should_ignore(path, pathspec)
  /\ extension_test(basename(path), extensions)
  /\ ~is_binary_file(FileAt(fsys, path))

\* lines 170-204: files_to_process
SelectFiles(fsys, include_subdirs, pathspec, extensions) ==
  LET WalkTest(p) == KeptByWalk(fsys, p, pathspec, extensions)
      ListTest(p) == KeptByListdir(fsys, p, pathspec, extensions)
      entries     == Listing(FileNames(fsys, <<>>) \cup DirNames(fsys, <<>>))
  IN  IF include_subdirs
      THEN SelectSeq(walk(fsys, <<>>), WalkTest)
      ELSE SelectSeq([i \in 1..Len(entries) |-> <<entries[i]>>], ListTest)

Header(path) == s_StartMark \o relpath(path) \o s_StartTail

Footer(path) == s_EndMark \o relpath(path) \o s_EndTail

Prefixes(s) == {SubSeq(s, 1, n) : n \in 0..Len(s)}

\* What open(file_path, 'r') and infile.read() can give: [opened, text],
\* text being None when the read raises.  The output file itself, when it
\* is among the files, is read while it is being written: the bytes that
\* have reached the file are any prefix of what was written.
ReadOutcomes(fsys, path, output_path, written) ==
  IF path = output_path
  THEN {[opened |-> TRUE, text |-> Some(p)] : p \in Prefixes(written)}
  ELSE LET file == FileAt(fsys, path)
       IN  IF ~file.openable THEN {[opened |-> FALSE, text |-> None]}
           ELSE {[opened |-> TRUE, text |-> ReadText(file)]}

\* append_file_content without its last except clause: a failure of open
\* leaves the function as an exception
append_file_content_uncaught(written, path, outcome) ==
  [written |-> IF ~outcome.opened THEN written
               ELSE IF outcome.text = None THEN written \o Header(path)
               ELSE written \o Header(path) \o Value(outcome.text) \o Footer(path),
   raised  |-> ~outcome.opened]

\* append_file_content: what the output holds after the call, and whether
\* an exception leaves it.  The header is written before the read; both
\* except clauses swallow the exception.
append_file_content(written, path, outcome) ==
  [written |-> IF ~outcome.opened THEN written
               ELSE IF outcome.text = None THEN written \o Header(path)
               ELSE written \o Header(path) \o Value(outcome.text) \o Footer(path),
   raised  |-> FALSE]

-----------------------------------------------------------------------------
(* Spec: runs of the program over enumerated trees and arguments.  In mode *)
(* "main" the program is started from the scanned directory through main,  *)
(* with the default log file; in mode "direct" consolidate_files is called *)
(* with spec = load_gitignore_patterns(input_dir), as the repository's     *)
(* test calls it.  A second run follows the first on the tree as the first *)
(* left it.                                                                *)

\* os.path.basename(__file__)
ScriptName == s_consolidate_files_py

\* the default of --log-file
LogName == s_consolidate_files_log

\* the files a tree is drawn from
Universe ==
  {File(<<s_a_txt>>, s_hello, TRUE, TRUE),
   File(<<s_b_png>>, s_png_header, TRUE, TRUE),
   File(<<s_gitignore>>, LinesText(<<s_b_png>>), TRUE, TRUE),
   File(<<s_gitignore>>, LinesText(<<p_star_txt, p_not_summarised>>), TRUE, TRUE),
   File(<<s_gitignore>>, LinesText(<<s_b_png>>), FALSE, TRUE),
   File(<<s_dot_h, s_c_py>>, <<"c">>, TRUE, TRUE),
   File(<<s_d_txt>>, <<"d", "xFF">>, TRUE, TRUE),
   File(<<s_e_txt>>, <<"e">>, FALSE, TRUE),
   File(<<s_pipe>>, <<>>, TRUE, FALSE),
   File(<<s_sub, s_summarised_txt>>, <<"s", "CR", "LF">>, TRUE, TRUE),
   File(<<s_sub, s_consolidate_files_py>>, <<"p">>, TRUE, TRUE)}

Trees ==
  {S \in SUBSET Universe :
     /\ Cardinality(S) <= MaxFiles
     /\ \A f, g \in S : f.path = g.path => f = g}

OutputNames == {s_summarised_txt, s_hash_out_txt}

Extensions == {None, Some(<<s_ext_py>>)}

\* the path of the output file in the tree; <<>> when it lies outside
OutputPath == IF args.output_in_root THEN <<args.output_name>> ELSE <<>>

\* the tree with file f created or replaced
WithFile(fsys, f) == {g \in fsys : g.path # f.path} \cup {f}

Init ==
  /\ pc = "start"
  /\ fs \in Trees
  /\ \E mode \in {"main", "direct"} : \E isdir, subdirs, inroot \in BOOLEAN :
       \E exts \in Extensions : \E name \in OutputNames :
         /\ isdir \/ (mode = "main" /\ fs = {})
         /\ args = [mode |-> mode, input_is_dir |-> isdir, include_subdirs |-> subdirs,
                    extensions |-> exts, output_name |-> name, output_in_root |-> inroot]
  /\ spec = None
  /\ result = None
  /\ files_to_process = <<>>
  /\ pos = 0
  /\ outfile = None
  /\ run = 1
  /\ previous_output = None

\* setup_logging opens the log file in the current directory
LogFile == File(<<LogName>>, <<>>, TRUE, TRUE)

\* main, lines 260-264: the input is no directory
MainExit ==
  /\ pc = "start"
  /\ args.mode = "main"
  /\ ~args.input_is_dir
  /\ pc' = "exited"
  /\ UNCHANGED <<fs, args, spec, files_to_process, pos, outfile, run, previous_output, result>>

\* main, lines 260-287: the log file is opened and the patterns are loaded
\* with the names of the script, the log file and the output file
MainLoad ==
  /\ pc = "start"
  /\ args.mode = "main"
  /\ args.input_is_dir
  /\ fs' = WithFile(fs, LogFile)
  /\ spec' = load_gitignore_patterns(fs', Some(<<ScriptName, LogName, args.output_name>>))
  /\ pc' = "loaded"
  /\ UNCHANGED <<args, files_to_process, pos, outfile, run, previous_output, result>>

\* test_consolidate_files.py, line 59
DirectLoad ==
  /\ pc = "start"
  /\ args.mode = "direct"
  /\ spec' = load_gitignore_patterns(fs, None)
  /\ pc' = "loaded"
  /\ UNCHANGED <<fs, args, files_to_process, pos, outfile, run, previous_output, result>>

\* consolidate_files, lines 170-206
Select ==
  /\ pc = "loaded"
  /\ files_to_process' = SelectFiles(fs, args.include_subdirs, spec, args.extensions)
  /\ pc' = "selected"
  /\ UNCHANGED <<fs, args, spec, pos, outfile, run, previous_output, result>>

\* line 208: the output file is created or truncated
OpenOutput ==
  /\ pc = "selected"
  /\ outfile' = Some(<<>>)
  /\ fs' = IF args.output_in_root THEN WithFile(fs, File(OutputPath, <<>>, TRUE, TRUE)) ELSE fs
  /\ pos' = 1
  /\ pc' = "writing"
  /\ UNCHANGED <<args, spec, files_to_process, run, previous_output, result>>

\* lines 209-210: one turn of the loop
AppendFile ==
  /\ pc = "writing"
  /\ pos <= Len(files_to_process)
  /\ \E outcome \in ReadOutcomes(fs, files_to_process[pos], OutputPath, Value(outfile)) :
       LET r == append_file_content(Value(outfile), files_to_process[pos], outcome)
       IN  /\ outfile' = Some(r.written)
           /\ pc' = IF r.raised THEN "raised" ELSE "writing"
           /\ pos' = IF r.raised THEN pos ELSE pos + 1
  /\ UNCHANGED <<fs, args, spec, files_to_process, run, previous_output, result>>

\* lines 208-212: the loop is over and the output file is closed
CloseOutput ==
  /\ pc = "writing"
  /\ pos > Len(files_to_process)
  /\ fs' = IF args.output_in_root
           THEN WithFile(fs, File(OutputPath, Value(outfile), TRUE, TRUE)) ELSE fs
  /\ pc' = "done"
  /\ UNCHANGED <<args, spec, files_to_process, pos, outfile, run, previous_output, result>>

\* the program is started again with the same arguments
Rerun ==
  /\ pc = "done"
  /\ run = 1
  /\ run' = 2
  /\ previous_output' = outfile
  /\ pc' = "start"
  /\ spec' = None
  /\ files_to_process' = <<>>
  /\ pos' = 0
  /\ outfile' = None
  /\ UNCHANGED <<fs, args, result>>

Next ==
  \/ MainExit
  \/ MainLoad
  \/ DirectLoad
  \/ Select
  \/ OpenOutput
  \/ AppendFile
  \/ CloseOutput
  \/ Rerun

Spec == Init /\ [][Next]_vars

-----------------------------------------------------------------------------
(* Properties of the runs (Spec).                                          *)

Candidates == {files_to_process[i] : i \in 1..Len(files_to_process)}

\* the tree without the output file
TreeWithoutOutput == {f \in fs : f.path # OutputPath}

C1Tree ==
  {File(<<s_a_txt>>, s_hello, TRUE, TRUE),
   File(<<s_b_png>>, s_png_header, TRUE, TRUE),
   File(<<s_gitignore>>, LinesText(<<s_b_png>>), TRUE, TRUE)}

\* C1: on the tree of a.txt ("hello"), b.png (a PNG header) and a .gitignore
\* whose only pattern is b.png, with no extension filter, a.txt is the only
\* file selected, and the output is the entry of a.txt, with no "b.png" in it.
C1_Scenario ==
  (args.mode = "direct" /\ run = 1 /\ args.extensions = None /\ TreeWithoutOutput = C1Tree) =>
    /\ pc \in {"selected", "writing", "done"} => files_to_process = <<<<s_a_txt>>>>
    /\ pc = "done" =>
         /\ Value(outfile) = Header(<<s_a_txt>>) \o s_hello \o Footer(<<s_a_txt>>)
         /\ ~contains(Value(outfile), s_b_png)

Readable(file) == file.openable /\ Decodable(file.content)

\* Whether out, from offset k on, is made of one piece for each of the files
\* i, i + 1, ... that the loop has handled: the entry of a file that can be
\* read (for the output file itself, an entry whose content is a prefix of
\* what precedes it; the content is the text as a text-mode read gives it),
\* and for a file that cannot, nothing when strict and nothing or its header
\* otherwise.
RECURSIVE EntriesFrom(_, _, _, _)
EntriesFrom(out, k, i, strict) ==
  IF i >= pos \/ i > Len(files_to_process) THEN k = Len(out)
  ELSE
    LET path == files_to_process[i]
        At(j, piece) ==
          j + Len(piece) <= Len(out) /\ SubSeq(out, j + 1, j + Len(piece)) = piece
        Fits(piece) == At(k, piece) /\ EntriesFrom(out, k + Len(piece), i + 1, strict)
        h == k + Len(Header(path))
    IN  IF path = OutputPath
        THEN /\ At(k, Header(path))
             /\ \E n \in 0..k :
                  /\ At(h + n, Footer(path))
                  /\ At(h, SubSeq(out, 1, n))
                  /\ EntriesFrom(out, h + n + Len(Footer(path)), i + 1, strict)
        ELSE IF Readable(FileAt(fs, path))
        THEN Fits(Header(path) \o TranslateNewlines(FileAt(fs, path).content) \o Footer(path))
        ELSE IF strict THEN Fits(<<>>)
        ELSE Fits(<<>>) \/ Fits(Header(path))

\* C2: a file that cannot be read adds nothing to the output: the output is
\* the entries (header, content, footer) of the files that could be read.
C2_SkippedFilesLeaveNothing ==
  pc \in {"writing", "done"} => EntriesFrom(Value(outfile), 0, 1, TRUE)

\* C5: no selected file lies below a directory whose name begins with ".".
C5_NoHiddenDirectory ==
  \A i \in 1..Len(files_to_process) :
    \A k \in 1..(Len(files_to_process[i]) - 1) : ~IsHidden(files_to_process[i][k])

\* a recursive run has selected, and a file below a hidden directory that
\* every test would keep is in the tree
C5_Witness ==
  /\ pc = "selected"
  /\ args.include_subdirs
  /\ <<s_dot_h, s_c_py>> \in Paths(fs)
  /\ args.extensions = Some(<<s_ext_py>>)
  /\ KeptByWalk(fs, <<s_dot_h, s_c_py>>, spec, args.extensions)
  /\ <<s_dot_h, s_c_py>> \notin Candidates

\* C6: the second of two successive runs writes the output the first wrote.
C6_Idempotent ==
  (pc = "done" /\ run = 2) => outfile = previous_output

C10_NoSelfInclusion ==
  args.mode = "main" =>
    \A i \in 1..Len(files_to_process) :
      basename(files_to_process[i]) \notin {ScriptName, LogName, args.output_name}

=============================================================================
